---------------------------- MODULE Spec2Model ----------------------------
(***************************************************************************)
(* Model of the generics + reflection sorting example of gobyexample:     *)
(* the record types, the reflection calls the comparators make, the       *)
(* comparator factories (NewStringSorter, NewIntSorter, NewGenericSorter), *)
(* the direct sorters (SortByStringField, SortByIntField,                  *)
(* SortByFloatField) and SortWithComparator, all of which sort with        *)
(* sort.Slice.                                                             *)
(*                                                                         *)
(* Go strings are sequences of bytes, compared byte by byte.  A float64    *)
(* is a number of hundredths or NaN.  Indices are Go's (from 0): At and    *)
(* Swap translate them.                                                    *)
(***************************************************************************)
EXTENDS Integers, Sequences, FiniteSets, TLC

VARIABLES
    T,            \* the record type of the slice (the type parameter T)
    slice,        \* the []T the program holds
    input,        \* the slice as the last call received it
    comparator,   \* the Comparator[T] the program holds, or NoComparator
    last,         \* the last call and what it returned
    pc,           \* "running", or "panicked" once a call has panicked
    ixS,          \* SlicesIndex: the slice s it searches
    ixV,          \* SlicesIndex: the value v it looks for
    ixI,          \* SlicesIndex: the loop's index i
    ixRet,        \* SlicesIndex: what it returned, once it has
    ixPc,         \* SlicesIndex: "loop", or "returned"
    lst,          \* the List[int] of main: its head and tail pointers
    elements,     \* the element structs allocated so far, by address
    pushed,       \* the values Push was called with, in order of the calls
    elems,        \* what the last AllElements returned
    lstLast,      \* the last call on lst: "none", "Push" or "AllElements"
    itE,          \* the iterator of lst.All(): its loop variable e
    itPc,         \* the iterator: "none", "running" or "returned"
    yields,       \* the values the iterator has called yield with, in order
    yieldRets,    \* what each of those calls of yield returned
    memory,       \* concurrent sorts: the records of both slices, by address
    memory0,      \* concurrent sorts: memory as it was before the sorts
    goroutines,   \* concurrent sorts: each sort's slice header and position
    fibA,         \* genFib's iterator: a
    fibB,         \* genFib's iterator: b
    fibPc,        \* genFib's iterator: "none", "running" or "returned"
    fibYields,    \* the values the iterator has called yield with, in order
    fibLimit,     \* the range body breaks on n >= fibLimit (10 in main)
    fArg,         \* f: the argument main calls it with
    fRet,         \* f: the int it returned
    fErr,         \* f: the error it returned
    fAs,          \* errors.As(err, &ae): what it returned, and ae
    fPc,          \* "none", "call", "returned", "matched"
    chProg,       \* channels: which program runs
    chIn,         \* channels: the program's inputs (msg, orders, done's capacity)
    chans,        \* channels: each channel's capacity and buffer
    chPc,         \* channels: the statement each goroutine is at (0: not started)
    chLocals      \* channels: the program's variables and what it has printed

sorterVars == <<T, slice, input, comparator, last, pc>>
indexVars == <<ixS, ixV, ixI, ixRet, ixPc>>
iterVars == <<itE, itPc, yields, yieldRets>>
listVars == <<lst, elements, pushed, elems, lstLast, iterVars>>
goVars == <<memory, memory0, goroutines>>
fibVars == <<fibA, fibB, fibPc, fibYields, fibLimit>>
fVars == <<fArg, fRet, fErr, fAs, fPc>>
chanVars == <<chProg, chIn, chans, chPc, chLocals>>
vars == <<sorterVars, indexVars, listVars, goVars, fibVars, fVars, chanVars>>

\* What the sorters leave alone, what SlicesIndex does, and what the List
\* methods do.
notSorter == <<indexVars, listVars, goVars, fibVars, fVars, chanVars>>
notIndex == <<sorterVars, listVars, goVars, fibVars, fVars, chanVars>>
notList == <<sorterVars, indexVars, goVars, fibVars, fVars, chanVars>>
notGo == <<sorterVars, indexVars, listVars, fibVars, fVars, chanVars>>
notFib == <<sorterVars, indexVars, listVars, goVars, fVars, chanVars>>
notF == <<sorterVars, indexVars, listVars, goVars, fibVars, chanVars>>
notChan == <<sorterVars, indexVars, listVars, goVars, fibVars, fVars>>

(***************************************************************************)
(* Bounds of the model.                                                    *)
(***************************************************************************)
\* Longest slice drawn from the small record sets.
MaxLen == 2

\* Longest slice SlicesIndex searches.
MaxIndexLen == 3

\* Most Push calls on the list.
MaxPush == 3

\* Longest first slice of two sorts that run concurrently.
MaxGoLen == 2

\* Largest n the range body over genFib() breaks at.
MaxFibLimit == 30

\* f is called with the arguments -MaxArg .. MaxArg.
MaxArg == 50

\* Most orders processOrders is called with.
MaxOrders == 3

(***************************************************************************)
(* Strings: byte sequences, ordered as Go orders strings.                  *)
(***************************************************************************)
StrAlice    == <<65, 108, 105, 99, 101>>
StrBob      == <<66, 111, 98>>
StrLaptop   == <<76, 97, 112, 116, 111, 112>>
StrMouse    == <<77, 111, 117, 115, 101>>
StrTheGo    == <<84, 104, 101, 32, 71, 111>>
StrIntro    == <<73, 110, 116, 114, 111>>
StrGoIn     == <<71, 111, 32, 105, 110>>
StrGo       == <<71, 111>>
StrDonovan  == <<65, 108, 97, 110>>
StrDoxsey   == <<67, 97, 108, 101, 98>>
StrAl       == <<65, 108>>
StrBo       == <<66, 111>>

\* s < t on Go strings: the first differing byte decides, a proper prefix
\* is smaller.
RECURSIVE StrLess(_, _)
StrLess(s, t) ==
    IF t = <<>> THEN FALSE
    ELSE IF s = <<>> THEN TRUE
    ELSE IF Head(s) # Head(t) THEN Head(s) < Head(t)
    ELSE StrLess(Tail(s), Tail(t))

\* A "greater" that is the negation of "less": true on equal strings.
StrNotLess(s, t) == ~StrLess(s, t)

StrGreater(s, t) == StrLess(t, s)

(***************************************************************************)
(* reflect.Value of a field: its Kind, its type's name (what               *)
(* Value.String prints for a non-string), and its payload.                 *)
(***************************************************************************)
Value(kind, typ, s, n, nan, isNil) ==
    [kind |-> kind, typ |-> typ, s |-> s, n |-> n, nan |-> nan, isNil |-> isNil]

\* The zero Value, which FieldByName returns when no field has the name.
ZeroValue == Value("Invalid", <<>>, <<>>, 0, FALSE, FALSE)

TypString  == <<115, 116, 114, 105, 110, 103>>
TypInt     == <<105, 110, 116>>
TypFloat64 == <<102, 108, 111, 97, 116, 54, 52>>
TypPString == <<42, 115, 116, 114, 105, 110, 103>>
TypPInt    == <<42, 105, 110, 116>>
TypAddress == <<109, 97, 105, 110, 46, 65, 100, 100, 114, 101, 115, 115>>

StringV(s)  == Value("String", TypString, s, 0, FALSE, FALSE)
IntV(n)     == Value("Int", TypInt, <<>>, n, FALSE, FALSE)
Float64V(n) == Value("Float64", TypFloat64, <<>>, n, FALSE, FALSE)
NaN         == Value("Float64", TypFloat64, <<>>, 0, TRUE, FALSE)
\* *string and *int fields: nil, or pointing at a string or an int.
NilPString     == Value("Ptr", TypPString, <<>>, 0, FALSE, TRUE)
PStringV(s)    == Value("Ptr", TypPString, s, 0, FALSE, FALSE)
NilPInt        == Value("Ptr", TypPInt, <<>>, 0, FALSE, TRUE)
PIntV(n)       == Value("Ptr", TypPInt, <<>>, n, FALSE, FALSE)
\* A field of struct type Address; its City is the payload.
AddressV(city) == Value("Struct", TypAddress, city, 0, FALSE, FALSE)

(***************************************************************************)
(* The record types of the example and of its README.                      *)
(***************************************************************************)
Person(name, age) ==
    [type |-> "Person", kind |-> "Struct",
     fields |-> [Name |-> StringV(name), Age |-> IntV(age)]]

Product(name, price) ==
    [type |-> "Product", kind |-> "Struct",
     fields |-> [Name |-> StringV(name), Price |-> price]]

Book(title, author) ==
    [type |-> "Book", kind |-> "Struct",
     fields |-> [Title |-> StringV(title), Author |-> StringV(author)]]

\* README, challenge 3: Person with fields that may be nil.
NullablePerson(name, nickname, age) ==
    [type |-> "NullablePerson", kind |-> "Struct",
     fields |-> [Name |-> StringV(name), Nickname |-> nickname, Age |-> age]]

\* README, challenge 2: Person with a field of struct type.
NestedPerson(name, city) ==
    [type |-> "NestedPerson", kind |-> "Struct",
     fields |-> [Name |-> StringV(name), Address |-> AddressV(city)]]

\* A record held as a string-keyed map, map[string]string{"Name": name}:
\* fields holds its keys.
PersonMap(name) ==
    [type |-> "PersonMap", kind |-> "Map", fields |-> [Name |-> StringV(name)]]

Types == {"Person", "Product", "Book", "NullablePerson", "NestedPerson",
          "PersonMap"}

\* The records slices are drawn from, per type.
Records(t) ==
    CASE t = "Person" ->
           {Person(StrBob, 25), Person(StrAlice, 30), Person(StrAlice, 20)}
      [] t = "Product" ->
           {Product(StrLaptop, Float64V(99999)), Product(StrMouse, Float64V(2999)),
            Product(StrMouse, NaN)}
      [] t = "Book" ->
           {Book(StrTheGo, StrDonovan), Book(StrIntro, StrDoxsey),
            Book(StrGoIn, StrDoxsey)}
      [] t = "NullablePerson" ->
           {NullablePerson(StrAlice, NilPString, NilPInt),
            NullablePerson(StrAlice, PStringV(StrAl), PIntV(20)),
            NullablePerson(StrBob, PStringV(StrBo), NilPInt)}
      [] t = "NestedPerson" ->
           {NestedPerson(StrAlice, StrGo), NestedPerson(StrBob, StrGo)}
      [] t = "PersonMap" -> {PersonMap(StrBob), PersonMap(StrAlice)}

\* The field names a caller may ask for: the type's own, and one no type has.
FieldNames(t) ==
    CASE t = "Person" -> {"Name", "Age", "DoesNotExist"}
      [] t = "Product" -> {"Name", "Price", "DoesNotExist"}
      [] t = "Book" -> {"Title", "Author", "DoesNotExist"}
      [] t = "NullablePerson" -> {"Name", "Nickname", "Age", "DoesNotExist"}
      [] t = "NestedPerson" -> {"Name", "Address", "DoesNotExist"}
      [] t = "PersonMap" -> {"Name", "DoesNotExist"}

(***************************************************************************)
(* package reflect, as the example calls it.                               *)
(***************************************************************************)
\* A call's outcome: a panic, or a returned value.
Panic    == [panic |-> TRUE, val |-> FALSE]
Ret(b)   == [panic |-> FALSE, val |-> b]

\* reflect.ValueOf(a).FieldByName(fieldName) panics when a is not a struct
\* (v.mustBe(Struct)): there is no lookup by key in a map.
FieldByNamePanics(a) == a.kind # "Struct"

\* reflect.ValueOf(a).FieldByName(fieldName) on a struct: the field, or the
\* zero Value.
FieldByName(a, fieldName) ==
    IF fieldName \in DOMAIN a.fields THEN a.fields[fieldName] ELSE ZeroValue

\* Value.Kind
ValueKind(v) == v.kind

\* Value.String: the string of a String, and for every other kind a
\* description of the Value, "<invalid Value>" or "<T Value>"; it never
\* panics.
ValueString(v) ==
    IF v.kind = "String" THEN v.s
    ELSE IF v.kind = "Invalid"
         THEN <<60, 105, 110, 118, 97, 108, 105, 100, 32, 86, 97, 108, 117, 101, 62>>
         ELSE <<60>> \o v.typ \o <<32, 86, 97, 108, 117, 101, 62>>

\* Value.Int: the int64 of an Int, Int8, Int16, Int32 or Int64; a panic on
\* every other kind and on the zero Value.
ValueInt(v) == [panic |-> v.kind # "Int", val |-> v.n]

\* Value.Float: the float64 of a Float32 or Float64; a panic otherwise.
ValueFloat(v) == [panic |-> v.kind # "Float64", val |-> v]

\* x < y and x > y on float64: false as soon as one side is NaN.
FloatLess(x, y) == ~x.nan /\ ~y.nan /\ x.n < y.n
FloatGreater(x, y) == FloatLess(y, x)

(***************************************************************************)
(* The comparison closures.  Each is the body of the func the Go code      *)
(* hands to sort.Slice or returns as a Comparator[T], applied to two       *)
(* records.                                                                *)
(***************************************************************************)
\* The closure of SortByStringField and of NewStringSorter.
StringLess(fieldName, ascending, a, b) ==
    LET fieldA == FieldByName(a, fieldName)
        fieldB == FieldByName(b, fieldName)
        strA == ValueString(fieldA)
        strB == ValueString(fieldB)
    IN  IF FieldByNamePanics(a) \/ FieldByNamePanics(b) THEN Panic
        ELSE IF ascending THEN Ret(StrLess(strA, strB))
        ELSE Ret(StrGreater(strA, strB))

\* The closure of SortByIntField and of NewIntSorter.
IntLess(fieldName, ascending, a, b) ==
    LET fieldA == FieldByName(a, fieldName)
        fieldB == FieldByName(b, fieldName)
        intA == ValueInt(fieldA)
        intB == ValueInt(fieldB)
    IN  IF FieldByNamePanics(a) \/ FieldByNamePanics(b) THEN Panic
        ELSE IF intA.panic \/ intB.panic THEN Panic
        ELSE IF ascending THEN Ret(intA.val < intB.val)
        ELSE Ret(intA.val > intB.val)

\* The closure of SortByFloatField.
FloatFieldLess(fieldName, ascending, a, b) ==
    LET valueI == FieldByName(a, fieldName)
        valueJ == FieldByName(b, fieldName)
        floatI == ValueFloat(valueI)
        floatJ == ValueFloat(valueJ)
    IN  IF FieldByNamePanics(a) \/ FieldByNamePanics(b) THEN Panic
        ELSE IF floatI.panic \/ floatJ.panic THEN Panic
        ELSE IF ascending THEN Ret(FloatLess(floatI.val, floatJ.val))
        ELSE Ret(FloatGreater(floatI.val, floatJ.val))

\* A generic closure that compares strings and drops the direction.
GenericLessUndirected(fieldName, ascending, a, b) ==
    StringLess(fieldName, TRUE, a, b)

\* The closure of NewGenericSorter: a switch on the kind of a's field,
\* whose default answers false.
GenericLess(fieldName, ascending, a, b) ==
    LET fieldA == FieldByName(a, fieldName)
        fieldB == FieldByName(b, fieldName)
    IN  IF FieldByNamePanics(a) \/ FieldByNamePanics(b) THEN Panic
        ELSE
        CASE ValueKind(fieldA) = "String" ->
                LET strA == ValueString(fieldA)
                    strB == ValueString(fieldB)
                IN  IF ascending THEN Ret(StrLess(strA, strB))
                    ELSE Ret(StrGreater(strA, strB))
          [] ValueKind(fieldA) = "Int" ->
                LET intA == ValueInt(fieldA)
                    intB == ValueInt(fieldB)
                IN  IF intA.panic \/ intB.panic THEN Panic
                    ELSE IF ascending THEN Ret(intA.val < intB.val)
                    ELSE Ret(intA.val > intB.val)
          [] ValueKind(fieldA) = "Float64" ->
                LET floatA == ValueFloat(fieldA)
                    floatB == ValueFloat(fieldB)
                IN  IF floatA.panic \/ floatB.panic THEN Panic
                    ELSE IF ascending THEN Ret(FloatLess(floatA.val, floatB.val))
                    ELSE Ret(FloatGreater(floatA.val, floatB.val))
          [] OTHER -> Ret(FALSE)

\* A func value: which closure it is and the variables it captured.
Closure(fn, fieldName, ascending) ==
    [fn |-> fn, fieldName |-> fieldName, ascending |-> ascending]

\* No Comparator[T] built yet.
NoComparator == Closure("nil", "", TRUE)

\* The factories.  Each returns its closure and nothing else: no factory
\* looks at a record or at T's fields, and none returns an error.
NewStringSorter(fieldName, ascending) == Closure("StringSorter", fieldName, ascending)
NewIntSorter(fieldName, ascending) == Closure("IntSorter", fieldName, ascending)
NewGenericSorter(fieldName, ascending) == Closure("GenericSorter", fieldName, ascending)

\* Calling a func value on two records.
Call(f, a, b) ==
    CASE f.fn \in {"StringSorter", "SortByStringField"} ->
            StringLess(f.fieldName, f.ascending, a, b)
      [] f.fn \in {"IntSorter", "SortByIntField"} ->
            IntLess(f.fieldName, f.ascending, a, b)
      [] f.fn = "SortByFloatField" ->
            FloatFieldLess(f.fieldName, f.ascending, a, b)
      [] f.fn = "GenericSorter" ->
            GenericLess(f.fieldName, f.ascending, a, b)

\* The reflection one call of a closure does: FieldByName once for a and
\* once for b in every closure, and Kind once in NewGenericSorter's switch.
FieldByNameCalls(fn) ==
    IF fn \in {"StringSorter", "IntSorter", "GenericSorter",
               "SortByStringField", "SortByIntField", "SortByFloatField"}
    THEN 1 + 1 ELSE 0

KindCalls(fn) == IF fn = "GenericSorter" THEN 1 ELSE 0

\* The reflection a factory does when it is called: its body is the return
\* of the closure, so none.
FactoryFieldByNameCalls(op) == 0

(***************************************************************************)
(* sort.Slice, which every sorter of the example calls.  It runs the       *)
(* standard library's pattern-defeating quicksort on (less, swap):         *)
(* insertion sort up to maxInsertion elements, and above that a pivot,     *)
(* a partition and a sort of each side.  The operators below are that      *)
(* algorithm for the lengths the model draws, up to maxInsertion + 1:      *)
(* at those lengths no side of a partition is partitioned again, the       *)
(* heapsort fallback and breakPatterns are never entered, and the pivot    *)
(* is a median of three.  data is the slice during the sort, less the      *)
(* func value, and indices are Go's.                                       *)
(***************************************************************************)
maxInsertion == 12

At(data, i) == data[i + 1]

\* A swapper that stores data[j] at i and loses data[i].
SwapLosing(data, i, j) == [data EXCEPT ![i + 1] = data[j + 1]]

\* The swapper: data[i], data[j] = data[j], data[i].
Swap(data, i, j) == [data EXCEPT ![i + 1] = data[j + 1], ![j + 1] = data[i + 1]]

\* Less with the operands exchanged: comparator(slice[j], slice[i]).
LessExchanged(data, less, i, j) == Call(less, At(data, j), At(data, i)).val

\* less(i, j) on the slice as it stands; the calls that panic never get here.
Less(data, less, i, j) == Call(less, At(data, i), At(data, j)).val

\* insertionSort_func's two loops, at (i, j):
\*   for i := a + 1; i < b; i++ {
\*       for j := i; j > a && less(j, j-1); j-- { swap(j, j-1) } }
RECURSIVE insertionSortLoop(_, _, _, _, _, _)
insertionSortLoop(data, less, a, b, i, j) ==
    IF ~(i < b) THEN data
    ELSE IF j > a /\ Less(data, less, j, j - 1)
         THEN insertionSortLoop(Swap(data, j, j - 1), less, a, b, i, j - 1)
         ELSE insertionSortLoop(data, less, a, b, i + 1, i + 1)

\* insertionSort_func sorts data[a:b].
insertionSort_func(data, less, a, b) ==
    insertionSortLoop(data, less, a, b, a + 1, a + 1)

\* order2_func: (x, y) with data[x] <= data[y], counting a swap of the two.
order2_func(data, less, a, b, swaps) ==
    IF Less(data, less, b, a) THEN <<b, a, swaps + 1>> ELSE <<a, b, swaps>>

\* median_func: the index of the median of data[a], data[b], data[c]:
\*   a, b = order2_func(data, a, b, swaps)
\*   b, c = order2_func(data, b, c, swaps)
\*   a, b = order2_func(data, a, b, swaps)
\*   return b
\* Each step takes the triple <<x, y, swaps>> the step before it returned.
medianReturn(o) == <<o[2], o[3]>>

medianThird(data, less, a, o) ==
    medianReturn(order2_func(data, less, a, o[1], o[3]))

medianSecond(data, less, c, o) ==
    medianThird(data, less, o[1], order2_func(data, less, o[2], c, o[3]))

median_func(data, less, a, b, c, swaps) ==
    medianSecond(data, less, c, order2_func(data, less, a, b, swaps))

\* The hint choosePivot_func returns with pivot m[1] after m[2] swaps
\* (maxSwaps = 4 * 3).
pivotHint(m) ==
    [pivot |-> m[1],
     hint |-> IF m[2] = 0 THEN "increasingHint"
              ELSE IF m[2] = 4 * 3 THEN "decreasingHint"
              ELSE "unknownHint"]

\* choosePivot_func for 8 <= b - a < 50: the median of the elements at
\* the three quarters, and a hint from the number of swaps it took.
choosePivot_func(data, less, a, b) ==
    pivotHint(median_func(data, less,
                          a + ((b - a) \div 4) * 1,
                          a + ((b - a) \div 4) * 2,
                          a + ((b - a) \div 4) * 3, 0))

\* reverseRange_func: data[a:b] reversed.
reverseRange_func(data, a, b) ==
    [x \in 1..Len(data) |->
        IF a + 1 <= x /\ x <= b THEN data[(a + 1) + b - x] ELSE data[x]]

\* partialInsertionSort_func for b - a < 50: whether data[a:b] is already
\* in order (no less(i, i-1)); nothing is moved at that length.
partialInsertionSort_func(data, less, a, b) ==
    \A i \in (a + 1)..(b - 1) : ~Less(data, less, i, i - 1)

\* for i <= j && less(i, a) { i++ }
RECURSIVE partitionUp(_, _, _, _, _)
partitionUp(data, less, a, i, j) ==
    IF i <= j /\ Less(data, less, i, a)
    THEN partitionUp(data, less, a, i + 1, j)
    ELSE i

\* for i <= j && !less(j, a) { j-- }
RECURSIVE partitionDown(_, _, _, _, _)
partitionDown(data, less, a, i, j) ==
    IF i <= j /\ ~Less(data, less, j, a)
    THEN partitionDown(data, less, a, i, j - 1)
    ELSE j

\* The loop of partition_func, from (i, j): move i up, move j down; once
\* they cross put the pivot at j and return j, else swap the two and go on.
RECURSIVE partitionLoop(_, _, _, _, _)
partitionCross(data, less, a, i, j) ==
    IF i > j
    THEN [data |-> Swap(data, j, a), mid |-> j]
    ELSE partitionLoop(Swap(data, i, j), less, a, i + 1, j - 1)

partitionMoveDown(data, less, a, i, j) ==
    partitionCross(data, less, a, i, partitionDown(data, less, a, i, j))

partitionLoop(data, less, a, i, j) ==
    partitionMoveDown(data, less, a, partitionUp(data, less, a, i, j), j)

\* partition_func: one quicksort partition of data[a:b] around data[pivot],
\* which it first swaps to a; returns the pivot's new index.
partition_func(data, less, a, b, pivot) ==
    partitionLoop(Swap(data, a, pivot), less, a, a + 1, b - 1)

\* pdqsort_func sorts data[a:b]: insertion sort up to maxInsertion
\* elements; else a pivot, a reversal if the hint says decreasing, a return
\* if the range is found in order, and a partition with a sort of each side.
RECURSIVE pdqsort_func(_, _, _, _)
pdqsortSides(less, a, b, p) ==
    pdqsort_func(pdqsort_func(p.data, less, a, p.mid), less, p.mid + 1, b)

pdqsortHinted(data, less, a, b, pivot, hint) ==
    IF hint = "increasingHint" /\ partialInsertionSort_func(data, less, a, b)
    THEN data
    ELSE pdqsortSides(less, a, b, partition_func(data, less, a, b, pivot))

pdqsortPivoted(data, less, a, b, c) ==
    IF c.hint = "decreasingHint"
    THEN pdqsortHinted(reverseRange_func(data, a, b), less, a, b,
                       (b - 1) - (c.pivot - a), "increasingHint")
    ELSE pdqsortHinted(data, less, a, b, c.pivot, c.hint)

pdqsort_func(data, less, a, b) ==
    IF b - a <= maxInsertion
    THEN insertionSort_func(data, less, a, b)
    ELSE pdqsortPivoted(data, less, a, b, choosePivot_func(data, less, a, b))

\* sort.Slice(x, less).  A panic of less ends the sort at its first call,
\* which a slice of two or more elements always makes, before any swap;
\* the records of a []T have the same fields, so that if less panics on
\* one pair it panics on every pair.
sortSlice(x, less) ==
    IF Len(x) >= 2 /\ \E i, j \in 1..Len(x) : Call(less, x[i], x[j]).panic
    THEN [panic |-> TRUE, data |-> x]
    ELSE [panic |-> FALSE, data |-> pdqsort_func(x, less, 0, Len(x))]

(***************************************************************************)
(* The sorters of the example.  Each returns the slice as sort.Slice left  *)
(* it; the SortBy...Field functions also return an error, which is always  *)
(* nil.                                                                    *)
(***************************************************************************)
SortByStringField(s, fieldName, ascending) ==
    LET r == sortSlice(s, Closure("SortByStringField", fieldName, ascending))
    IN  [panic |-> r.panic, data |-> r.data, err |-> "nil"]

SortByIntField(s, fieldName, ascending) ==
    LET r == sortSlice(s, Closure("SortByIntField", fieldName, ascending))
    IN  [panic |-> r.panic, data |-> r.data, err |-> "nil"]

SortByFloatField(s, fieldName, ascending) ==
    LET r == sortSlice(s, Closure("SortByFloatField", fieldName, ascending))
    IN  [panic |-> r.panic, data |-> r.data, err |-> "nil"]

SortWithComparator(s, c) ==
    LET r == sortSlice(s, c)
    IN  [panic |-> r.panic, data |-> r.data, err |-> "none"]

(***************************************************************************)
(* The program: it holds a slice of records of one type, sorts it with     *)
(* the SortBy...Field functions, then builds comparators, calls them and   *)
(* sorts the slice with them, until a call panics.  The SortBy...Field     *)
(* functions neither read nor write a comparator, so taking them before    *)
(* the first comparator is built leaves out no outcome of any call.        *)
(***************************************************************************)
\* Every slice of up to MaxLen records of type t.
ShortSlices(t) == UNION {[1..n -> Records(t)] : n \in 0..MaxLen}

\* Slices one element longer than insertion sort takes: thirteen people,
\* {Alice 30} first, {Alice 20} at position q, {Bob 25} elsewhere.
LongSlices(t) ==
    IF t = "Person"
    THEN {[i \in 1..(maxInsertion + 1) |->
              IF i = 1 THEN Person(StrAlice, 30)
              ELSE IF i = q THEN Person(StrAlice, 20)
              ELSE Person(StrBob, 25)] :
          q \in 2..(maxInsertion + 1)}
    ELSE {}

\* The slices that hold every record of type t once, in each order.
WholeSlices(t) ==
    {s \in [1..Cardinality(Records(t)) -> Records(t)] :
        \A i, j \in DOMAIN s : i # j => s[i] # s[j]}

Slices(t) == ShortSlices(t) \cup WholeSlices(t) \cup LongSlices(t)

\* The last call: its name, its arguments, and what it returned.
Called(op, fieldName, ascending, args, ret, err) ==
    [op |-> op, fieldName |-> fieldName, ascending |-> ascending,
     args |-> args, ret |-> ret, err |-> err]

\* No SlicesIndex call under way.
IndexIdle == ixS = <<>> /\ ixV = "" /\ ixI = 0 /\ ixRet = 0 /\ ixPc = "loop"

\* The zero List, List[int]{}: head and tail nil, nothing allocated.
nil == 0
ListIdle ==
    /\ lst = [head |-> nil, tail |-> nil]
    /\ elements = <<>>
    /\ pushed = <<>>
    /\ elems = <<>>
    /\ lstLast = "none"
    /\ itE = nil
    /\ itPc = "none"
    /\ yields = <<>>
    /\ yieldRets = <<>>

\* No range over genFib() under way.
FibIdle ==
    /\ fibA = 0
    /\ fibB = 0
    /\ fibPc = "none"
    /\ fibYields = <<>>
    /\ fibLimit = 0

\* The nil error, and a nil *argError.
nilError == [type |-> "nil", arg |-> 0, message |-> ""]

\* f not called.
FIdle ==
    /\ fArg = 0
    /\ fRet = 0
    /\ fErr = nilError
    /\ fAs = [ok |-> FALSE, ae |-> nilError]
    /\ fPc = "none"

\* No channel program running.
ChanIdle ==
    /\ chProg = "none"
    /\ chIn = <<>>
    /\ chans = <<>>
    /\ chPc = <<>>
    /\ chLocals = <<>>

\* No concurrent sorts started.
GoIdle == memory = <<>> /\ memory0 = <<>> /\ goroutines = <<>>

Init ==
    /\ T \in Types
    /\ slice \in Slices(T)
    /\ input = slice
    /\ comparator = NoComparator
    /\ last = Called("none", "", TRUE, <<>>, FALSE, "none")
    /\ pc = "running"
    /\ IndexIdle
    /\ ListIdle
    /\ FibIdle
    /\ FIdle
    /\ ChanIdle
    /\ GoIdle

\* comparator := NewStringSorter[T](fieldName, ascending)
DoNewStringSorter ==
    /\ pc = "running"
    /\ \E fieldName \in FieldNames(T), ascending \in BOOLEAN :
          /\ comparator' = NewStringSorter(fieldName, ascending)
          /\ last' = Called("NewStringSorter", fieldName, ascending, <<>>, FALSE, "none")
    /\ input' = slice
    /\ UNCHANGED <<T, slice, pc, notSorter>>

\* comparator := NewIntSorter[T](fieldName, ascending)
DoNewIntSorter ==
    /\ pc = "running"
    /\ \E fieldName \in FieldNames(T), ascending \in BOOLEAN :
          /\ comparator' = NewIntSorter(fieldName, ascending)
          /\ last' = Called("NewIntSorter", fieldName, ascending, <<>>, FALSE, "none")
    /\ input' = slice
    /\ UNCHANGED <<T, slice, pc, notSorter>>

\* comparator := NewGenericSorter[T](fieldName, ascending)
DoNewGenericSorter ==
    /\ pc = "running"
    /\ \E fieldName \in FieldNames(T), ascending \in BOOLEAN :
          /\ comparator' = NewGenericSorter(fieldName, ascending)
          /\ last' = Called("NewGenericSorter", fieldName, ascending, <<>>, FALSE, "none")
    /\ input' = slice
    /\ UNCHANGED <<T, slice, pc, notSorter>>

\* comparator(a, b) on two records of type T
DoCompare ==
    /\ pc = "running"
    /\ comparator # NoComparator
    /\ \E a, b \in Records(T) :
          LET r == Call(comparator, a, b)
          IN  /\ last' = Called("comparator", comparator.fieldName,
                                comparator.ascending, <<a, b>>, r.val, "none")
              /\ pc' = IF r.panic THEN "panicked" ELSE "running"
    /\ input' = slice
    /\ UNCHANGED <<T, slice, comparator, notSorter>>

\* A SortWithComparator whose comparator keeps state: the sort leaves its
\* captured direction reversed.
DoSortWithComparatorToggling ==
    /\ pc = "running"
    /\ comparator # NoComparator
    /\ LET r == SortWithComparator(slice, comparator)
       IN  /\ slice' = r.data
           /\ last' = Called("SortWithComparator", comparator.fieldName,
                             comparator.ascending, <<>>, FALSE, r.err)
           /\ pc' = IF r.panic THEN "panicked" ELSE "running"
    /\ comparator' = [comparator EXCEPT !.ascending = ~comparator.ascending]
    /\ input' = slice
    /\ UNCHANGED <<T, notSorter>>

\* SortWithComparator(slice, comparator)
DoSortWithComparator ==
    /\ pc = "running"
    /\ comparator # NoComparator
    /\ LET r == SortWithComparator(slice, comparator)
       IN  /\ slice' = r.data
           /\ last' = Called("SortWithComparator", comparator.fieldName,
                             comparator.ascending, <<>>, FALSE, r.err)
           /\ pc' = IF r.panic THEN "panicked" ELSE "running"
    /\ input' = slice
    /\ UNCHANGED <<T, comparator, notSorter>>

\* err := SortByStringField(slice, fieldName, ascending), before the first
\* comparator is built.
DoSortByStringField ==
    /\ pc = "running"
    /\ comparator = NoComparator
    /\ \E fieldName \in FieldNames(T), ascending \in BOOLEAN :
          LET r == SortByStringField(slice, fieldName, ascending)
          IN  /\ slice' = r.data
              /\ last' = Called("SortByStringField", fieldName, ascending, <<>>,
                                FALSE, IF r.panic THEN "none" ELSE r.err)
              /\ pc' = IF r.panic THEN "panicked" ELSE "running"
    /\ input' = slice
    /\ UNCHANGED <<T, comparator, notSorter>>

\* err := SortByIntField(slice, fieldName, ascending)
DoSortByIntField ==
    /\ pc = "running"
    /\ comparator = NoComparator
    /\ \E fieldName \in FieldNames(T), ascending \in BOOLEAN :
          LET r == SortByIntField(slice, fieldName, ascending)
          IN  /\ slice' = r.data
              /\ last' = Called("SortByIntField", fieldName, ascending, <<>>,
                                FALSE, IF r.panic THEN "none" ELSE r.err)
              /\ pc' = IF r.panic THEN "panicked" ELSE "running"
    /\ input' = slice
    /\ UNCHANGED <<T, comparator, notSorter>>

\* err := SortByFloatField(slice, fieldName, ascending)
DoSortByFloatField ==
    /\ pc = "running"
    /\ comparator = NoComparator
    /\ \E fieldName \in FieldNames(T), ascending \in BOOLEAN :
          LET r == SortByFloatField(slice, fieldName, ascending)
          IN  /\ slice' = r.data
              /\ last' = Called("SortByFloatField", fieldName, ascending, <<>>,
                                FALSE, IF r.panic THEN "none" ELSE r.err)
              /\ pc' = IF r.panic THEN "panicked" ELSE "running"
    /\ input' = slice
    /\ UNCHANGED <<T, comparator, notSorter>>

Next ==
    \/ DoNewStringSorter
    \/ DoNewIntSorter
    \/ DoNewGenericSorter
    \/ DoCompare
    \/ DoSortWithComparator
    \/ DoSortByStringField
    \/ DoSortByIntField
    \/ DoSortByFloatField

Spec == Init /\ [][Next]_vars

(***************************************************************************)
(* SlicesIndex(s, v), one step of its loop at a time:                      *)
(*     for i := range s { if v == s[i] { return i } }                      *)
(*     return -1                                                           *)
(* K is string, as in main, and == is equality of strings.                 *)
(***************************************************************************)
\* The strings of main's slice, and one it does not hold.
IndexValues == {"foo", "bar", "zoo", "hello"}

\* The sorters at rest while SlicesIndex runs.
SorterIdle ==
    /\ T = "Person"
    /\ slice = <<>>
    /\ input = <<>>
    /\ comparator = NoComparator
    /\ last = Called("none", "", TRUE, <<>>, FALSE, "none")
    /\ pc = "running"

InitIndex ==
    /\ SorterIdle
    /\ ListIdle
    /\ FibIdle
    /\ FIdle
    /\ ChanIdle
    /\ GoIdle
    /\ ixS \in UNION {[1..n -> IndexValues \ {"hello"}] : n \in 0..MaxIndexLen}
    /\ ixV \in IndexValues
    /\ ixI = 0
    /\ ixRet = 0
    /\ ixPc = "loop"

\* A loop that passes s[i] over whether or not v == s[i].
IndexStepPassing ==
    /\ ixPc = "loop"
    /\ ixI < Len(ixS)
    /\ ixI' = ixI + 1
    /\ UNCHANGED <<ixS, ixV, ixRet, ixPc, notIndex>>

\* One step of the loop with v == s[i] false: on to i + 1.
IndexStep ==
    /\ ixPc = "loop"
    /\ ixI < Len(ixS)
    /\ ixV # ixS[ixI + 1]
    /\ ixI' = ixI + 1
    /\ UNCHANGED <<ixS, ixV, ixRet, ixPc, notIndex>>

\* if v == s[i] { return i }
IndexFound ==
    /\ ixPc = "loop"
    /\ ixI < Len(ixS)
    /\ ixV = ixS[ixI + 1]
    /\ ixRet' = ixI
    /\ ixPc' = "returned"
    /\ UNCHANGED <<ixS, ixV, ixI, notIndex>>

\* The range is exhausted: return -1
IndexNotFound ==
    /\ ixPc = "loop"
    /\ ixI >= Len(ixS)
    /\ ixRet' = -1
    /\ ixPc' = "returned"
    /\ UNCHANGED <<ixS, ixV, ixI, notIndex>>

NextIndex == IndexStep \/ IndexFound \/ IndexNotFound

SpecIndex == InitIndex /\ [][NextIndex]_vars

(***************************************************************************)
(* List[T], the singly-linked list, with T int as in main.  An element is  *)
(* allocated at the next free address; elements[p] is the struct at p,     *)
(* and nil is no address.                                                  *)
(***************************************************************************)
\* The values main pushes.
PushValues == {10, 13, 23}

\* &element[T]{val: v}: the address of a new element, and the store with it.
NewElement(store, v) == Append(store, [next |-> nil, val |-> v])

\* A Push at the front: the new element becomes the head.
PushFront(l, store, v) ==
    LET p == Len(store) + 1
    IN  IF l.tail = nil
        THEN [lst |-> [head |-> p, tail |-> p], elements |-> NewElement(store, v)]
        ELSE [lst |-> [l EXCEPT !.head = p],
              elements |-> Append(store, [next |-> l.head, val |-> v])]

\* A Push that links the new element but leaves tail where it was.
PushKeepingTail(l, store, v) ==
    LET p == Len(store) + 1
    IN  IF l.tail = nil
        THEN [lst |-> [head |-> p, tail |-> p], elements |-> NewElement(store, v)]
        ELSE [lst |-> l,
              elements |-> [NewElement(store, v) EXCEPT ![l.tail].next = p]]

\* lst.Push(v)
Push(l, store, v) ==
    LET p == Len(store) + 1
    IN  IF l.tail = nil
        THEN [lst |-> [head |-> p, tail |-> p], elements |-> NewElement(store, v)]
        ELSE [lst |-> [l EXCEPT !.tail = p],
              elements |-> [NewElement(store, v) EXCEPT ![l.tail].next = p]]

\* The loop of AllElements from element e on:
\*     for e := lst.head; e != nil; e = e.next { elems = append(elems, e.val) }
RECURSIVE allElementsLoop(_, _, _)
allElementsLoop(store, e, acc) ==
    IF e = nil THEN acc
    ELSE allElementsLoop(store, store[e].next, Append(acc, store[e].val))

\* lst.AllElements()
AllElements(l, store) == allElementsLoop(store, l.head, <<>>)

InitList ==
    /\ SorterIdle
    /\ IndexIdle
    /\ ListIdle
    /\ FibIdle
    /\ FIdle
    /\ ChanIdle
    /\ GoIdle

\* lst.Push(v).  As in main, the pushes come before the list is ranged
\* over, and no loop body pushes.
DoPush ==
    /\ itPc = "none"
    /\ Len(pushed) < MaxPush
    /\ \E v \in PushValues :
          LET r == Push(lst, elements, v)
          IN  /\ lst' = r.lst
              /\ elements' = r.elements
              /\ pushed' = Append(pushed, v)
    /\ lstLast' = "Push"
    /\ UNCHANGED <<elems, iterVars, notList>>

DoAllElements ==
    /\ elems' = AllElements(lst, elements)
    /\ lstLast' = "AllElements"
    /\ UNCHANGED <<lst, elements, pushed, iterVars, notList>>

\* An iterator that starts at the tail of the list.
DoAllFromTail ==
    /\ itPc # "running"
    /\ itE' = lst.tail
    /\ itPc' = "running"
    /\ yields' = <<>>
    /\ yieldRets' = <<>>
    /\ UNCHANGED <<lst, elements, pushed, elems, lstLast, notList>>

\* The func lst.All() returns is called with a yield (by a range loop or
\* by slices.Collect) and begins:  e := lst.head
DoAll ==
    /\ itPc # "running"
    /\ itE' = lst.head
    /\ itPc' = "running"
    /\ yields' = <<>>
    /\ yieldRets' = <<>>
    /\ UNCHANGED <<lst, elements, pushed, elems, lstLast, notList>>

\* An iterator that goes on to e.next whatever yield returned.
ItYieldDeaf ==
    /\ itPc = "running"
    /\ itE # nil
    /\ \E ret \in BOOLEAN :
          /\ yields' = Append(yields, elements[itE].val)
          /\ yieldRets' = Append(yieldRets, ret)
    /\ itE' = elements[itE].next
    /\ UNCHANGED <<itPc, lst, elements, pushed, elems, lstLast, notList>>

\* e != nil:  if !yield(e.val) { return }  and then e = e.next.  What yield
\* returns is the consumer's choice: false is a break in the range body.
ItYield ==
    /\ itPc = "running"
    /\ itE # nil
    /\ \E ret \in BOOLEAN :
          /\ yields' = Append(yields, elements[itE].val)
          /\ yieldRets' = Append(yieldRets, ret)
          /\ itE' = IF ret THEN elements[itE].next ELSE itE
          /\ itPc' = IF ret THEN "running" ELSE "returned"
    /\ UNCHANGED <<lst, elements, pushed, elems, lstLast, notList>>

\* e == nil: the loop ends and the iterator returns.
ItReturn ==
    /\ itPc = "running"
    /\ itE = nil
    /\ itPc' = "returned"
    /\ UNCHANGED <<itE, yields, yieldRets, lst, elements, pushed, elems, lstLast,
                   notList>>

NextList == DoPush \/ DoAllElements \/ DoAll \/ ItYield \/ ItReturn

SpecList == InitList /\ [][NextList]_vars

(***************************************************************************)
(* Two goroutines, each running SortWithComparator on a slice of its own   *)
(* with one comparator:                                                    *)
(*     c := NewStringSorter[Person](...)                                   *)
(*     go SortWithComparator(xs, c);  go SortWithComparator(ys, c)         *)
(* memory holds the records of xs and then those of ys; a slice header is  *)
(* an offset into memory and a length.  sort.Slice on up to maxInsertion   *)
(* elements is insertionSort_func,                                         *)
(*     for i := a + 1; i < b; i++ {                                        *)
(*         for j := i; j > a && less(j, j-1); j-- { swap(j, j-1) } }       *)
(* and a goroutine takes one step of it at a time: the loop's test with    *)
(* its call of less, or a swap.  A panic in a goroutine ends the program.  *)
(***************************************************************************)
\* The comparators the factories build for the fields of T.
Comparators(t) ==
    {Closure(fn, fieldName, ascending) :
        fn \in {"StringSorter", "IntSorter", "GenericSorter"},
        fieldName \in FieldNames(t), ascending \in BOOLEAN}

\* A goroutine about to call SortWithComparator on memory[off .. off+len).
Goroutine(off, len) == [off |-> off, len |-> len, i |-> 0, j |-> 0, pc |-> "start"]

\* The records of goroutine g's slice, in memory mem.
Region(mem, g) == SubSeq(mem, g.off + 1, g.off + g.len)

InitGo ==
    /\ T = "Person"
    /\ slice = <<>>
    /\ input = <<>>
    /\ comparator \in Comparators(T)
    /\ last = Called("none", "", TRUE, <<>>, FALSE, "none")
    /\ pc = "running"
    /\ IndexIdle
    /\ ListIdle
    /\ FibIdle
    /\ FIdle
    /\ ChanIdle
    /\ \E xs \in UNION {[1..n -> Records(T)] : n \in 0..MaxGoLen},
          ys \in WholeSlices(T) :
          /\ memory = xs \o ys
          /\ memory0 = xs \o ys
          /\ goroutines = <<Goroutine(0, Len(xs)), Goroutine(Len(xs), Len(ys))>>

\* A swap at j that takes j for an address: it leaves out the slice's offset.
SwapAtAddress(mem, off, j) == Swap(mem, j, j - 1)

\* swap(j, j-1) on the slice at offset off.
SwapAt(mem, off, j) == Swap(mem, off + j, off + j - 1)

\* less(j, j-1) on the slice at offset off.
LessAt(mem, less, off, j) == Call(less, At(mem, off + j), At(mem, off + j - 1))

\* No goroutine has panicked.
Alive == \A g \in DOMAIN goroutines : goroutines[g].pc # "panicked"

\* sort.Slice begins: i := a + 1, and the outer loop's test i < b.
GoStart(g) ==
    /\ Alive
    /\ goroutines[g].pc = "start"
    /\ goroutines' = [goroutines EXCEPT ![g].i = 1, ![g].j = 1,
                          ![g].pc = IF 1 < goroutines[g].len THEN "less" ELSE "done"]
    /\ UNCHANGED <<memory, memory0, notGo>>

\* The inner loop's test, j > a && less(j, j-1): on to the swap, or out of
\* the inner loop to i++ and the outer loop's test.
GoLess(g) ==
    /\ Alive
    /\ goroutines[g].pc = "less"
    /\ LET me == goroutines[g]
           r == IF me.j > 0 THEN LessAt(memory, comparator, me.off, me.j)
                ELSE Ret(FALSE)
       IN  goroutines' =
              IF r.panic THEN [goroutines EXCEPT ![g].pc = "panicked"]
              ELSE IF r.val THEN [goroutines EXCEPT ![g].pc = "swap"]
              ELSE [goroutines EXCEPT ![g].i = me.i + 1, ![g].j = me.i + 1,
                        ![g].pc = IF me.i + 1 < me.len THEN "less" ELSE "done"]
    /\ UNCHANGED <<memory, memory0, notGo>>

\* swap(j, j-1), then j--
GoSwap(g) ==
    /\ Alive
    /\ goroutines[g].pc = "swap"
    /\ memory' = SwapAt(memory, goroutines[g].off, goroutines[g].j)
    /\ goroutines' = [goroutines EXCEPT ![g].j = goroutines[g].j - 1,
                                        ![g].pc = "less"]
    /\ UNCHANGED <<memory0, notGo>>

NextGo ==
    \/ \E g \in DOMAIN goroutines : GoStart(g)
    \/ \E g \in DOMAIN goroutines : GoLess(g)
    \/ \E g \in DOMAIN goroutines : GoSwap(g)

SpecGo == InitGo /\ [][NextGo]_vars

(***************************************************************************)
(* genFib's iterator under main's range loop:                              *)
(*     a, b := 1, 1                                                        *)
(*     for { if !yield(a) { return }; a, b = b, a+b }                      *)
(*     for n := range genFib() { if n >= 10 { break }; fmt.Println(n) }    *)
(* yield(n) runs the range body, and returns false when the body breaks.   *)
(* The break threshold, 10 in main, is fibLimit.  The values stay far      *)
(* below the width of int.                                                 *)
(***************************************************************************)
\* The assignments done one after the other: a = b, then b = a + b.
fibNextInSequence(a, b) == [a |-> b, b |-> b + b]

\* a, b = b, a+b
fibNext(a, b) == [a |-> b, b |-> a + b]

\* The range body on n: true to go on, false on break.
yieldFib(n, limit) == ~(n >= limit)

InitFib ==
    /\ SorterIdle
    /\ IndexIdle
    /\ ListIdle
    /\ GoIdle
    /\ FIdle
    /\ ChanIdle
    /\ fibA = 1
    /\ fibB = 1
    /\ fibPc = "running"
    /\ fibYields = <<>>
    /\ fibLimit \in 1..MaxFibLimit

\* yield(a) returned true:  a, b = b, a+b
FibYield ==
    /\ fibPc = "running"
    /\ yieldFib(fibA, fibLimit)
    /\ fibYields' = Append(fibYields, fibA)
    /\ fibA' = fibNext(fibA, fibB).a
    /\ fibB' = fibNext(fibA, fibB).b
    /\ UNCHANGED <<fibPc, fibLimit, notFib>>

\* yield(a) returned false:  return
FibReturn ==
    /\ fibPc = "running"
    /\ ~yieldFib(fibA, fibLimit)
    /\ fibYields' = Append(fibYields, fibA)
    /\ fibPc' = "returned"
    /\ UNCHANGED <<fibA, fibB, fibLimit, notFib>>

NextFib == FibYield \/ FibReturn

\* The iterator and the range body are one goroutine's straight-line code:
\* a step that can be taken is taken.
SpecFib == InitFib /\ [][NextFib]_vars /\ WF_vars(NextFib)

(***************************************************************************)
(* The custom error example: argError, f, and main's errors.As.            *)
(***************************************************************************)
\* &argError{arg, message}
argError(arg, message) == [type |-> "*argError", arg |-> arg, message |-> message]

\* An f that refuses every argument from 42 up.
fFrom42(arg) ==
    IF arg >= 42 THEN [val |-> -1, err |-> argError(arg, "can't work with it")]
    ELSE [val |-> arg + 3, err |-> nilError]

\* func f(arg int) (int, error)
fFunc(arg) ==
    IF arg = 42 THEN [val |-> -1, err |-> argError(arg, "can't work with it")]
    ELSE [val |-> arg + 3, err |-> nilError]

\* errors.As(err, &ae) with ae of type target: false on a nil error; true,
\* with ae set, when err's type is target; argError wraps no other error,
\* so the chain ends there.
ErrorsAs(err, target) ==
    IF err.type = "nil" THEN [ok |-> FALSE, ae |-> nilError]
    ELSE IF err.type = target THEN [ok |-> TRUE, ae |-> err]
    ELSE [ok |-> FALSE, ae |-> nilError]

InitF ==
    /\ SorterIdle
    /\ IndexIdle
    /\ ListIdle
    /\ GoIdle
    /\ FibIdle
    /\ ChanIdle
    /\ fArg \in (0 - MaxArg)..MaxArg
    /\ fRet = 0
    /\ fErr = nilError
    /\ fAs = [ok |-> FALSE, ae |-> nilError]
    /\ fPc = "call"

\* _, err := f(arg)
DoF ==
    /\ fPc = "call"
    /\ fRet' = fFunc(fArg).val
    /\ fErr' = fFunc(fArg).err
    /\ fPc' = "returned"
    /\ UNCHANGED <<fArg, fAs, notF>>

\* var ae *argError; errors.As(err, &ae)
DoErrorsAs ==
    /\ fPc = "returned"
    /\ fAs' = ErrorsAs(fErr, "*argError")
    /\ fPc' = "matched"
    /\ UNCHANGED <<fArg, fRet, fErr, notF>>

NextF == DoF \/ DoErrorsAs

SpecF == InitF /\ [][NextF]_vars

(***************************************************************************)
(* The channel programs.  Three programs run on one model of Go's          *)
(* channels:                                                               *)
(*   "directions"  ping / pong / main of the channel-directions example;   *)
(*   "pitfall"     the goroutine that sends 1 and 2 on an unbuffered       *)
(*                 channel to a main that receives once;                   *)
(*   "orders"      processOrders, whose worker saves the orders and then   *)
(*                 sends on done, made with capacity 0 or 1.               *)
(* A program is a table of statements per goroutine ("main", and "go" for  *)
(* the goroutine main starts); chPc holds the number of the statement each *)
(* is at.  A send on a channel with a buffer completes when the buffer has *)
(* room, a receive when the buffer holds a value; on an unbuffered         *)
(* channel a send and a receive complete together, when one goroutine is   *)
(* at the send and another at the receive.                                 *)
(***************************************************************************)
Programs == {"directions", "pitfall", "orders"}
Procs == {"main", "go"}

\* make(chan T, cap)
MakeChan(cap) == [cap |-> cap, buf |-> <<>>]

\* The channels of the pitfall with results made with a buffer of one.
MakeChannelsBuffered(prog, in) ==
    CASE prog = "directions" -> [pings |-> MakeChan(1), pongs |-> MakeChan(1)]
      [] prog = "pitfall" -> [results |-> MakeChan(1)]
      [] prog = "orders" -> [done |-> MakeChan(in.cap)]

\* The channels each program makes.
MakeChannels(prog, in) ==
    CASE prog = "directions" -> [pings |-> MakeChan(1), pongs |-> MakeChan(1)]
      [] prog = "pitfall" -> [results |-> MakeChan(0)]
      [] prog = "orders" -> [done |-> MakeChan(in.cap)]

Op(op, ch) == [op |-> op, ch |-> ch]

\* A pong that sends the message back on pings.
StmtPongEchoes(prog, proc, at) ==
    IF prog = "directions" /\ proc = "main"
    THEN CASE at = 1 -> Op("send", "pings")
           [] at = 2 -> Op("recv", "pings")
           [] at = 3 -> Op("send", "pings")
           [] at = 4 -> Op("recv", "pongs")
           [] OTHER -> Op("end", "")
    ELSE Op("end", "")

\* A processOrders that closes the database and then waits for done.
StmtCloseFirst(prog, proc, at) ==
    IF prog = "orders" /\ proc = "main"
    THEN CASE at = 1 -> Op("go", "")
           [] at = 2 -> Op("close", "")
           [] at = 3 -> Op("recv", "done")
           [] OTHER -> Op("end", "")
    ELSE IF prog = "orders" /\ proc = "go"
    THEN CASE at = 1 -> Op("save", "")
           [] at = 2 -> Op("send", "done")
           [] OTHER -> Op("end", "")
    ELSE Op("end", "")

\* The statement goroutine proc of program prog is at.
Stmt(prog, proc, at) ==
    CASE prog = "directions" /\ proc = "main" ->
            CASE at = 1 -> Op("send", "pings")      \* ping: pings <- msg
              [] at = 2 -> Op("recv", "pings")      \* pong: msg := <-pings
              [] at = 3 -> Op("send", "pongs")      \* pong: pongs <- msg
              [] at = 4 -> Op("recv", "pongs")      \* fmt.Println(<-pongs)
              [] OTHER -> Op("end", "")
      [] prog = "pitfall" /\ proc = "main" ->
            CASE at = 1 -> Op("go", "")             \* go func() { ... }()
              [] at = 2 -> Op("sleep", "")          \* time.Sleep(2 * time.Second)
              [] at = 3 -> Op("recv", "results")    \* fmt.Println(<-results)
              [] OTHER -> Op("end", "")
      [] prog = "pitfall" /\ proc = "go" ->
            CASE at = 1 -> Op("send", "results")    \* results <- 1
              [] at = 2 -> Op("send", "results")    \* results <- 2
              [] OTHER -> Op("end", "")
      [] prog = "orders" /\ proc = "main" ->
            CASE at = 1 -> Op("go", "")             \* go func() { ... }()
              [] at = 2 -> Op("recv", "done")       \* <-done
              [] at = 3 -> Op("close", "")          \* closeDatabase()
              [] OTHER -> Op("end", "")
      [] prog = "orders" /\ proc = "go" ->
            CASE at = 1 -> Op("save", "")           \* for ... { saveToDatabase(order) }
              [] at = 2 -> Op("send", "done")       \* done <- true
              [] OTHER -> Op("end", "")
      [] OTHER -> Op("end", "")

\* The value a send statement sends.
SendValue(prog, proc, at, in, locals) ==
    CASE prog = "directions" -> IF at = 1 THEN in.msg ELSE locals.msg
      [] prog = "pitfall" -> at
      [] prog = "orders" -> TRUE

\* The program's variables after a receive statement received v.
AfterRecv(prog, proc, at, locals, v) ==
    CASE prog = "directions" /\ at = 2 -> [locals EXCEPT !.msg = v]
      [] prog = "directions" /\ at = 4 ->
            [locals EXCEPT !.printed = Append(locals.printed, v)]
      [] prog = "pitfall" -> [locals EXCEPT !.printed = Append(locals.printed, v)]
      [] prog = "orders" -> locals

\* Goroutine p's statement.
StmtOf(p) == IF chPc[p] = 0 THEN Op("end", "") ELSE Stmt(chProg, p, chPc[p])

InitChan ==
    /\ SorterIdle
    /\ IndexIdle
    /\ ListIdle
    /\ GoIdle
    /\ FibIdle
    /\ FIdle
    /\ chProg \in Programs
    /\ chIn \in
          CASE chProg = "directions" ->
                  {[msg |-> m, orders |-> <<>>, cap |-> 1] :
                      m \in {"passed message", "hello"}}
            [] chProg = "pitfall" -> {[msg |-> "", orders |-> <<>>, cap |-> 0]}
            [] chProg = "orders" ->
                  {[msg |-> "", orders |-> o, cap |-> c] :
                      o \in UNION {[1..n -> {"order A", "order B"}] : n \in 0..MaxOrders},
                      c \in {0, 1}}
    /\ chans = MakeChannels(chProg, chIn)
    /\ chPc = [main |-> 1, go |-> 0]
    /\ chLocals = [msg |-> "", printed |-> <<>>, saved |-> <<>>, dbOpen |-> TRUE]

\* ch <- v on a channel with a buffer: completes when the buffer has room.
ChanSendBuffered(p) ==
    /\ StmtOf(p).op = "send"
    /\ LET c == StmtOf(p).ch
       IN  /\ chans[c].cap > 0
           /\ Len(chans[c].buf) < chans[c].cap
           /\ chans' = [chans EXCEPT ![c].buf =
                            Append(@, SendValue(chProg, p, chPc[p], chIn, chLocals))]
    /\ chPc' = [chPc EXCEPT ![p] = @ + 1]
    /\ UNCHANGED <<chProg, chIn, chLocals, notChan>>

\* <-ch on a channel whose buffer holds a value.
ChanRecvBuffered(p) ==
    /\ StmtOf(p).op = "recv"
    /\ LET c == StmtOf(p).ch
       IN  /\ chans[c].buf # <<>>
           /\ chLocals' = AfterRecv(chProg, p, chPc[p], chLocals, Head(chans[c].buf))
           /\ chans' = [chans EXCEPT ![c].buf = Tail(@)]
    /\ chPc' = [chPc EXCEPT ![p] = @ + 1]
    /\ UNCHANGED <<chProg, chIn, notChan>>

\* ch <- v in p and <-ch in q on an unbuffered channel: the two complete
\* together.
ChanRendezvous(p, q) ==
    /\ p # q
    /\ StmtOf(p).op = "send"
    /\ StmtOf(q).op = "recv"
    /\ StmtOf(p).ch = StmtOf(q).ch
    /\ chans[StmtOf(p).ch].cap = 0
    /\ chLocals' = AfterRecv(chProg, q, chPc[q], chLocals,
                             SendValue(chProg, p, chPc[p], chIn, chLocals))
    /\ chPc' = [chPc EXCEPT ![p] = @ + 1, ![q] = @ + 1]
    /\ UNCHANGED <<chProg, chIn, chans, notChan>>

\* go func() { ... }(): the goroutine starts at its first statement.
ChanGo(p) ==
    /\ StmtOf(p).op = "go"
    /\ chPc' = [chPc EXCEPT ![p] = @ + 1, !["go"] = 1]
    /\ UNCHANGED <<chProg, chIn, chans, chLocals, notChan>>

\* time.Sleep ends.
ChanSleep(p) ==
    /\ StmtOf(p).op = "sleep"
    /\ chPc' = [chPc EXCEPT ![p] = @ + 1]
    /\ UNCHANGED <<chProg, chIn, chans, chLocals, notChan>>

\* for _, order := range orders { saveToDatabase(order) }: the next order
\* is saved, or the loop ends.
ChanSave(p) ==
    /\ StmtOf(p).op = "save"
    /\ IF Len(chLocals.saved) < Len(chIn.orders)
       THEN /\ chLocals' = [chLocals EXCEPT !.saved =
                               Append(@, chIn.orders[Len(chLocals.saved) + 1])]
            /\ UNCHANGED chPc
       ELSE /\ chPc' = [chPc EXCEPT ![p] = @ + 1]
            /\ UNCHANGED chLocals
    /\ UNCHANGED <<chProg, chIn, chans, notChan>>

\* closeDatabase()
ChanClose(p) ==
    /\ StmtOf(p).op = "close"
    /\ chLocals' = [chLocals EXCEPT !.dbOpen = FALSE]
    /\ chPc' = [chPc EXCEPT ![p] = @ + 1]
    /\ UNCHANGED <<chProg, chIn, chans, notChan>>

NextChan ==
    \/ \E p \in Procs : ChanSendBuffered(p)
    \/ \E p \in Procs : ChanRecvBuffered(p)
    \/ \E p, q \in Procs : ChanRendezvous(p, q)
    \/ \E p \in Procs : ChanGo(p)
    \/ \E p \in Procs : ChanSleep(p)
    \/ \E p \in Procs : ChanSave(p)
    \/ \E p \in Procs : ChanClose(p)

SpecChan == InitChan /\ [][NextChan]_vars

(***************************************************************************)
(* The vocabulary of the properties below.                                 *)
(***************************************************************************)
\* The fields a record of type t has, and the kind of each.
StructFields(t) ==
    IF t = "PersonMap" THEN {} ELSE FieldNames(t) \ {"DoesNotExist"}
FieldKind(t, f) == (CHOOSE r \in Records(t) : TRUE).fields[f].kind

\* The kinds the design compares: string, integer, float.
SupportedKinds == {"String", "Int", "Float64"}

\* The kinds a closure reads a value of without a panic or a fallback.
Expects(fn) ==
    CASE fn \in {"StringSorter", "SortByStringField"} -> {"String"}
      [] fn \in {"IntSorter", "SortByIntField"} -> {"Int"}
      [] fn = "SortByFloatField" -> {"Float64"}
      [] fn = "GenericSorter" -> SupportedKinds
      [] OTHER -> {}

\* Closure c can extract the value it compares from record r.
Extracts(c, r) == FieldByName(r, c.fieldName).kind \in Expects(c.fn)

Factories == {"NewStringSorter", "NewIntSorter", "NewGenericSorter"}
SortByOps == {"SortByStringField", "SortByIntField", "SortByFloatField"}
SortOps   == SortByOps \cup {"SortWithComparator"}

\* The last call was a sort, and it returned.
Sorted == last.op \in SortOps /\ pc = "running"

\* The func value the last sort handed to sort.Slice.
LastLess ==
    IF last.op = "SortWithComparator" THEN comparator
    ELSE Closure(last.op, last.fieldName, last.ascending)

\* The records of s whose field f is k, in the order s has them.
Keep(s, f, k) ==
    LET Test(r) == FieldByName(r, f) = k
    IN  SelectSeq(s, Test)

\* The values of field f along s.
Keys(s, f) == [i \in DOMAIN s |-> FieldByName(s[i], f)]

Reverse(s) == [i \in DOMAIN s |-> s[Len(s) + 1 - i]]

\* u <= v in the order of their kind: bytewise for strings, numeric for
\* integers and floats (no NaN is <= anything).
KeyLeq(u, v) ==
    CASE u.kind = "String" -> ~StrLess(v.s, u.s)
      [] u.kind = "Int" -> u.n <= v.n
      [] u.kind = "Float64" -> ~u.nan /\ ~v.nan /\ u.n <= v.n
      [] OTHER -> FALSE

(***************************************************************************)
(* The properties.                                                         *)
(***************************************************************************)
\* C1: a comparator built by NewStringSorter, NewIntSorter or
\* NewGenericSorter, called on records whose named field is present and of
\* a supported kind, returns; it answers false on (a, a), never true on
\* both (a, b) and (b, a), and true on (a, c) whenever true on (a, b) and
\* on (b, c).
C1_StrictWeakOrdering ==
    (/\ last.op = "comparator"
     /\ comparator.fieldName \in StructFields(T)
     /\ FieldKind(T, comparator.fieldName) \in SupportedKinds)
    => LET a == last.args[1]
           b == last.args[2]
       IN  /\ pc = "running"
           /\ a = b => ~last.ret
           /\ ~(last.ret /\ Call(comparator, b, a).val)
           /\ \A c \in Records(T) :
                 (last.ret /\ Call(comparator, b, c).val)
                 => Call(comparator, a, c).val

\* C2: every sort is stable: the records that have one value of the sort
\* field stand in the output in the order the input had them.
C2_Stable ==
    Sorted =>
       \A k \in {FieldByName(input[i], last.fieldName) : i \in DOMAIN input} :
          Keep(slice, last.fieldName, k) = Keep(input, last.fieldName, k)

\* C3: a factory called with a field name the record type does not have
\* fails with FieldNotFoundError and produces no comparator.
C3_FieldNotFound ==
    (last.op \in Factories /\ last.fieldName \notin StructFields(T))
    => /\ last.err = "FieldNotFoundError"
       /\ comparator.fieldName # last.fieldName

\* C4: NewStringSorter on a field that is not a string, and NewIntSorter
\* on a field that is not an integer, fail with KindMismatchError and
\* produce no comparator.
C4_KindMismatch ==
    (/\ last.op \in {"NewStringSorter", "NewIntSorter"}
     /\ last.fieldName \in StructFields(T)
     /\ FieldKind(T, last.fieldName) #
           (IF last.op = "NewStringSorter" THEN "String" ELSE "Int"))
    => /\ last.err = "KindMismatchError"
       /\ comparator.fieldName # last.fieldName

\* C5: NewGenericSorter on a field whose kind is not string, integer or
\* float fails with UnsupportedKindError and produces no comparator.
C5_UnsupportedKind ==
    (/\ last.op = "NewGenericSorter"
     /\ last.fieldName \in StructFields(T)
     /\ FieldKind(T, last.fieldName) \notin SupportedKinds)
    => /\ last.err = "UnsupportedKindError"
       /\ comparator.fieldName # last.fieldName

\* C6: a comparator that cannot extract a value of the kind it compares
\* from an operand does not answer false both for (a, b) and for (b, a)
\* as if the two were equal.
C6_NoSilentEqual ==
    (/\ last.op = "comparator"
     /\ \E r \in {last.args[1], last.args[2]} : ~Extracts(comparator, r))
    => ~(/\ pc = "running"
         /\ last.err = "none"
         /\ ~last.ret
         /\ Call(comparator, last.args[2], last.args[1]) = Ret(FALSE))

\* C7: SortByStringField, SortByIntField and SortByFloatField, given a
\* slice with a record whose field cannot be extracted in the kind they
\* sort by, return an error that is not nil and leave the slice as it was.
C7_SurfacesError ==
    (/\ last.op \in SortByOps
     /\ \E i \in DOMAIN input : ~Extracts(LastLess, input[i]))
    => /\ pc = "running"
       /\ last.err \notin {"nil", "none"}
       /\ slice = input

\* C8: after a sort by a present field of a supported kind the output is
\* in order on that field: ascending, each record's value is <= the next
\* one's; descending, each is >= the next one's.
C8_Ordered ==
    (/\ Sorted
     /\ last.fieldName \in StructFields(T)
     /\ FieldKind(T, last.fieldName) \in SupportedKinds)
    => \A i \in 1..(Len(slice) - 1) :
          LET u == FieldByName(slice[i], last.fieldName)
              v == FieldByName(slice[i + 1], last.fieldName)
          IN  IF last.ascending THEN KeyLeq(u, v) ELSE KeyLeq(v, u)

\* C9: after a sort by a field the record type has, in either direction,
\* no record whose field is nil stands before a record whose field has a
\* value.
C9_MissingLast ==
    (Sorted /\ last.fieldName \in StructFields(T))
    => \A i, j \in DOMAIN slice :
          i < j => ~(/\ FieldByName(slice[i], last.fieldName).isNil
                     /\ ~FieldByName(slice[j], last.fieldName).isNil)

\* C10: for a sort by a field of the kind the sorter compares, with no NaN
\* in it, the same sort of the same input in the other direction gives the
\* field's values in the reverse order, and the records of each one value
\* in the same order.
C10_ReverseExceptTies ==
    (/\ Sorted
     /\ last.fieldName \in StructFields(T)
     /\ FieldKind(T, last.fieldName) \in Expects(LastLess.fn)
     /\ \A i \in DOMAIN input : ~FieldByName(input[i], last.fieldName).nan)
    => LET f == last.fieldName
           other == sortSlice(input, Closure(LastLess.fn, f, ~last.ascending)).data
       IN  /\ Keys(other, f) = Reverse(Keys(slice, f))
           /\ \A k \in {FieldByName(input[i], f) : i \in DOMAIN input} :
                 Keep(other, f, k) = Keep(slice, f, k)

\* s is in the order of less: no record is followed by one that less puts
\* before it.
InOrder(s, less) ==
    \A i \in 1..(Len(s) - 1) : ~Call(less, s[i + 1], s[i]).val

\* C11: SortWithComparator of a slice that is already in the order of the
\* comparator returns the slice as it was, records that compare equal
\* included.
C11_Idempotent ==
    (/\ last.op = "SortWithComparator"
     /\ pc = "running"
     /\ InOrder(input, comparator))
    => slice = input

\* C11 happens: thirteen people already in ascending order of Name, two of
\* them equal on Name and different on Age, have been sorted by Name.
C11_Witness ==
    /\ last.op = "SortWithComparator"
    /\ pc = "running"
    /\ comparator = NewStringSorter("Name", TRUE)
    /\ Len(input) = maxInsertion + 1
    /\ InOrder(input, comparator)
    /\ input[1] # input[2]
    /\ input[1].fields.Name = input[2].fields.Name
    /\ input[2].fields.Name # input[3].fields.Name
    /\ slice = input

\* C12: the field is looked up and its kind inspected once, by the factory
\* call, and never by a call of the comparator.
C12_ResolvedOnce ==
    /\ last.op \in Factories => FactoryFieldByNameCalls(last.op) = 1
    /\ last.op = "comparator"
          => FieldByNameCalls(comparator.fn) + KindCalls(comparator.fn) = 0

\* How many times record r stands in s.
Count(s, r) == Cardinality({i \in DOMAIN s : s[i] = r})

\* C13: no call mutates, creates or drops a record: after every call the
\* slice holds the records its input held, each as many times and with the
\* field values it had; a call that is not a sort (a factory call, a
\* comparator call) and a call that panics leave the slice as it was.
C13_Permutation ==
    /\ Len(slice) = Len(input)
    /\ \A i \in DOMAIN input : Count(slice, input[i]) = Count(input, input[i])
    /\ (last.op \notin SortOps \/ pc = "panicked") => slice = input

\* C13 happens: a sort has returned and has moved records.
C13_Witness ==
    /\ Sorted
    /\ slice # input
    /\ \E i, j \in DOMAIN input : input[i] # input[j]

C16_NeverPanics == pc # "panicked"

\* C17: a field held through one level of pointer is unwrapped, so a sort
\* of records whose Nickname (*string) is set orders them by the string
\* pointed to, as if the field were a string: no panic, and ascending puts
\* no record before one with a smaller nickname (descending the reverse).
C17_Unwrapped ==
    (/\ last.op = "SortWithComparator"
     /\ T = "NullablePerson"
     /\ comparator.fn \in {"StringSorter", "GenericSorter"}
     /\ comparator.fieldName = "Nickname"
     /\ \A i \in DOMAIN input : ~input[i].fields.Nickname.isNil)
        => /\ pc = "running"
           /\ \A i \in 1..(Len(slice) - 1) :
                  IF comparator.ascending
                  THEN ~StrLess(slice[i + 1].fields.Nickname.s,
                                slice[i].fields.Nickname.s)
                  ELSE ~StrLess(slice[i].fields.Nickname.s,
                                slice[i + 1].fields.Nickname.s)

\* C18: a comparator built for a field orders string-keyed map records by
\* the value under that key, as it orders structs: a sort of maps by
\* "Name" does not panic, and ascending puts no record before one with a
\* smaller name (descending the reverse).
C18_KeyedFallback ==
    (/\ last.op = "SortWithComparator"
     /\ T = "PersonMap"
     /\ comparator.fn \in {"StringSorter", "GenericSorter"}
     /\ comparator.fieldName = "Name")
        => /\ pc = "running"
           /\ \A i \in 1..(Len(slice) - 1) :
                  IF comparator.ascending
                  THEN ~StrLess(slice[i + 1].fields.Name.s, slice[i].fields.Name.s)
                  ELSE ~StrLess(slice[i].fields.Name.s, slice[i + 1].fields.Name.s)

\* C19: SlicesIndex(s, v) returns the smallest index i with s[i] = v, and
\* -1 exactly when no element of s equals v, the empty s included.
C19_SmallestIndex ==
    ixPc = "returned" =>
        LET hits == {k \in 0..(Len(ixS) - 1) : ixS[k + 1] = ixV}
        IN  /\ hits # {} => ixRet \in hits /\ \A k \in hits : ixRet <= k
            /\ (ixRet = -1) <=> (hits = {})

\* C19 happens: v stands at two places of s, the first of them not the
\* head of s, and the call has returned the first.
C19_Witness ==
    /\ ixPc = "returned"
    /\ ixRet = 1
    /\ \E k \in 2..(Len(ixS) - 1) : ixS[k + 1] = ixV

\* C19's other case happens: the call has returned -1 on a slice that is
\* not empty.
C19_WitnessAbsent == ixPc = "returned" /\ ixRet = -1 /\ Len(ixS) = MaxIndexLen

\* C20: after any sequence of Push calls on an empty List, AllElements
\* returns the pushed values, once each, in the order they were pushed, and
\* an empty result when nothing was pushed.
C20_AllElementsInOrder == lstLast = "AllElements" => elems = pushed

\* C20 happens: AllElements has returned main's three values, 10, 13, 23.
C20_Witness == lstLast = "AllElements" /\ elems = <<10, 13, 23>>

\* C20's empty case happens: AllElements on the list nothing was pushed to.
C20_WitnessEmpty == lstLast = "AllElements" /\ pushed = <<>> /\ elems = <<>>

\* C15: two sorts that share one comparator and run concurrently over
\* disjoint slices: under every interleaving of their steps, a slice no
\* step of its own sort has reached is as it was, a slice whose sort has
\* ended is as SortWithComparator alone leaves it, whatever the other sort
\* has done since, and at every moment a slice holds the records it held
\* at the start.
C15_SharedComparator ==
    \A g \in DOMAIN goroutines :
        LET mine == Region(memory, goroutines[g])
            mine0 == Region(memory0, goroutines[g])
            alone == SortWithComparator(mine0, comparator)
        IN  /\ goroutines[g].pc = "start" => mine = mine0
            /\ goroutines[g].pc = "done" => ~alone.panic /\ mine = alone.data
            /\ goroutines[g].pc = "panicked" => alone.panic
            /\ \A k \in DOMAIN mine0 : Count(mine, mine0[k]) = Count(mine0, mine0[k])

\* C15 happens: the first sort has ended and has moved records, while the
\* second is between a comparison and the swap it decided on.
C15_Witness ==
    /\ goroutines # <<>>
    /\ goroutines[1].pc = "done"
    /\ Region(memory, goroutines[1]) # Region(memory0, goroutines[1])
    /\ goroutines[2].pc = "swap"
    /\ goroutines[2].i = 2

\* C25: direction is applied by inverting the comparison: for a comparator
\* of any factory on a present field of the kind it expects, the answer on
\* (a, b) is the answer of the comparator of the opposite direction on
\* (b, a), and neither call panics.
C25_DirectionInverts ==
    (/\ last.op = "comparator"
     /\ comparator.fieldName \in StructFields(T)
     /\ FieldKind(T, comparator.fieldName) \in Expects(comparator.fn))
        => LET opposite == Closure(comparator.fn, comparator.fieldName,
                                   ~comparator.ascending)
               r == Call(opposite, last.args[2], last.args[1])
           IN  /\ pc = "running"
               /\ ~r.panic
               /\ r.val = last.ret

\* C25 happens: a descending comparator by Name has been asked about two
\* records of equal name, and about two it puts in order.
C25_Witness ==
    /\ last.op = "comparator"
    /\ comparator = NewStringSorter("Name", FALSE)
    /\ T = "Person"
    /\ last.args[1].fields.Name = last.args[2].fields.Name
    /\ last.args[1] # last.args[2]
    /\ ~last.ret

\* C26: inferred mode builds the same comparator as typed mode: on a string
\* field NewGenericSorter's comparator and NewStringSorter's give the same
\* answer on every pair of records, and on an integer field
\* NewGenericSorter's and NewIntSorter's do, in both directions.
C26_InferredEqualsTyped ==
    (/\ last.op = "comparator"
     /\ comparator.fn \in {"StringSorter", "IntSorter", "GenericSorter"}
     /\ comparator.fieldName \in StructFields(T)
     /\ FieldKind(T, comparator.fieldName) \in {"String", "Int"}
     /\ FieldKind(T, comparator.fieldName) \in Expects(comparator.fn))
        => LET typed == IF FieldKind(T, comparator.fieldName) = "String"
                        THEN NewStringSorter(comparator.fieldName, comparator.ascending)
                        ELSE NewIntSorter(comparator.fieldName, comparator.ascending)
               inferred == NewGenericSorter(comparator.fieldName, comparator.ascending)
               rt == Call(typed, last.args[1], last.args[2])
               ri == Call(inferred, last.args[1], last.args[2])
           IN  /\ ~rt.panic /\ ~ri.panic
               /\ rt.val = ri.val
               /\ pc = "running" /\ last.ret = ri.val

\* C26 happens: the comparator built by NewGenericSorter on the integer
\* field Age, descending, has answered true.
C26_Witness ==
    /\ last.op = "comparator"
    /\ comparator = NewGenericSorter("Age", FALSE)
    /\ last.ret

\* The addresses met from element e on by following next, in order; the
\* walk gives up after fuel elements, which it reports with a nil at the end.
RECURSIVE chainFrom(_, _, _, _)
chainFrom(store, e, acc, fuel) ==
    IF e = nil THEN acc
    ELSE IF fuel = 0 THEN Append(acc, nil)
    ELSE chainFrom(store, store[e].next, Append(acc, e), fuel - 1)

Chain(l, store) == chainFrom(store, l.head, <<>>, Len(store))

\* C29: the List's structure after any sequence of Push calls: head is nil
\* exactly when tail is; otherwise tail.next is nil, the chain from head is
\* acyclic and ends at tail, and it holds as many elements as there were
\* Push calls; the element of the k-th Push stays k-th in the chain with
\* the value pushed (addresses are given out in the order of the pushes).
C29_ListStructure ==
    LET chain == Chain(lst, elements)
    IN  /\ (lst.head = nil) <=> (lst.tail = nil)
        /\ lst.tail # nil => elements[lst.tail].next = nil
        /\ \A k \in DOMAIN chain : chain[k] # nil
        /\ \A j, k \in DOMAIN chain : j # k => chain[j] # chain[k]
        /\ lst.tail # nil => chain # <<>> /\ chain[Len(chain)] = lst.tail
        /\ Len(chain) = Len(pushed)
        /\ \A k \in DOMAIN chain : chain[k] = k /\ elements[k].val = pushed[k]

\* C29 happens: MaxPush values have been pushed, the last of them equal to
\* the first, and head and tail are different elements.
C29_Witness ==
    /\ lstLast = "Push"
    /\ Len(pushed) = MaxPush
    /\ pushed[1] = pushed[MaxPush]
    /\ lst.head # lst.tail
    /\ lst.tail = MaxPush

\* s is the first Len(s) elements of t.
IsPrefix(s, t) == Len(s) <= Len(t) /\ s = SubSeq(t, 1, Len(s))

\* C21: the iterator of List.All calls yield on the list's values in order
\* from head; no call of yield follows one that returned false, after which
\* the iterator has returned; and when every yield returned true the
\* iterator returns after one call per element.
C21_YieldProtocol ==
    /\ IsPrefix(yields, AllElements(lst, elements))
    /\ Len(yieldRets) = Len(yields)
    /\ \A k \in 1..(Len(yieldRets) - 1) : yieldRets[k]
    /\ (yieldRets # <<>> /\ ~yieldRets[Len(yieldRets)]) => itPc = "returned"
    /\ (itPc = "returned" /\ \A k \in DOMAIN yieldRets : yieldRets[k])
          => yields = AllElements(lst, elements)

\* C21 happens: on main's list the second yield returned false and the
\* iterator has returned, one element short of the end.
C21_Witness ==
    /\ pushed = <<10, 13, 23>>
    /\ itPc = "returned"
    /\ yieldRets = <<TRUE, FALSE>>
    /\ yields = <<10, 13>>

\* C30: the iterator form and the slice form agree: what List.All yields
\* to a consumer that always continues is what AllElements returns, and a
\* consumer that stops at the k-th value has seen the first k elements of
\* that.
C30_AllAgreesWithAllElements ==
    itPc = "returned" =>
        IF \A k \in DOMAIN yieldRets : yieldRets[k]
        THEN yields = AllElements(lst, elements)
        ELSE yields = SubSeq(AllElements(lst, elements), 1, Len(yields))
             /\ Len(yields) <= Len(AllElements(lst, elements))

\* C30 happens: every value of main's list has been collected from the
\* iterator, and AllElements has returned them too.
C30_Witness ==
    /\ itPc = "returned"
    /\ yieldRets = <<TRUE, TRUE, TRUE>>
    /\ lstLast = "AllElements"
    /\ elems = <<10, 13, 23>>
    /\ yields = elems

\* What main's loop receives before it breaks on n >= 10.
FibUpTo13 == <<1, 1, 2, 3, 5, 8, 13>>

\* The values yielded so far are the Fibonacci sequence; every yield but
\* the last returned true; the iterator has returned exactly when the last
\* yield returned false.
FibSafe ==
    /\ \A k \in DOMAIN fibYields :
          fibYields[k] = IF k <= 2 THEN 1 ELSE fibYields[k - 1] + fibYields[k - 2]
    /\ \A k \in 1..(Len(fibYields) - 1) : yieldFib(fibYields[k], fibLimit)
    /\ fibPc = "returned"
          <=> (fibYields # <<>> /\ ~yieldFib(fibYields[Len(fibYields)], fibLimit))
    /\ (fibPc = "returned" /\ fibLimit = 10) => fibYields = FibUpTo13

\* C22: genFib's iterator yields 1, 1, 2, 3, 5, ..., each value from the
\* third on the sum of the two before; it runs on while yield returns
\* true and returns, with no further yield, the first time yield returns
\* false; so the range loop terminates, main's (break on n >= 10) after
\* receiving 1, 1, 2, 3, 5, 8, 13.
C22_FibTerminates == [](FibSafe) /\ <>(fibPc = "returned")

\* C22 happens: main's loop, breaking on n >= 10, has ended.
C22_Witness ==
    /\ fibLimit = 10
    /\ fibPc = "returned"
    /\ fibYields = FibUpTo13

\* C24: f(arg) returns -1 and a non-nil *argError that carries arg and
\* "can't work with it" exactly when arg is 42, and arg + 3 and nil for
\* every other arg; errors.As on the error matches *argError exactly when
\* arg is 42.
C24_ArgError ==
    /\ fPc \in {"returned", "matched"} =>
          /\ fArg = 42 => /\ fRet = -1
                          /\ fErr = argError(fArg, "can't work with it")
          /\ fArg # 42 => fRet = fArg + 3 /\ fErr = nilError
          /\ (fRet = -1 /\ fErr # nilError) <=> (fArg = 42)
    /\ fPc = "matched" =>
          /\ fAs.ok <=> (fArg = 42)
          /\ fAs.ok => fAs.ae.arg = fArg /\ fAs.ae.message = "can't work with it"

\* C24 happens: main's call, f(42), and errors.As has matched.
C24_Witness == fPc = "matched" /\ fArg = 42 /\ fAs.ok /\ fAs.ae.arg = 42

\* C24's other case happens: f(-4) returned -1 with a nil error, and
\* errors.As did not match.
C24_WitnessOther == fPc = "matched" /\ fArg = -4 /\ fRet = -1 /\ ~fAs.ok

\* Goroutine p's statement can complete now: it is not blocked.
CanStep(p) ==
    LET st == StmtOf(p)
    IN  CASE st.op = "send" ->
                IF chans[st.ch].cap > 0 THEN Len(chans[st.ch].buf) < chans[st.ch].cap
                ELSE \E q \in Procs \ {p} : StmtOf(q) = Op("recv", st.ch)
          [] st.op = "recv" ->
                \/ chans[st.ch].buf # <<>>
                \/ /\ chans[st.ch].cap = 0
                   /\ \E q \in Procs \ {p} : StmtOf(q) = Op("send", st.ch)
          [] st.op = "end" -> FALSE
          [] OTHER -> TRUE

\* C23: channel directions, pings and pongs of capacity 1: no step of
\* ping(pings, msg); pong(pings, pongs); <-pongs ever blocks, and at the
\* end the value received from pongs is the msg given to ping and both
\* channels are empty.
C23_PingPong ==
    chProg = "directions" =>
        /\ chPc.main < 5 => CanStep("main")
        /\ chPc.main = 5 =>
              /\ chLocals.printed = <<chIn.msg>>
              /\ chans.pings.buf = <<>>
              /\ chans.pongs.buf = <<>>

\* C23 happens: main has printed "passed message", received from pongs.
C23_Witness ==
    /\ chProg = "directions"
    /\ chPc.main = 5
    /\ chLocals.printed = <<"passed message">>

\* C27: the unbuffered pitfall: the first send completes only when main
\* receives; main receives and prints 1, and nothing else; the goroutine
\* is then at its second send and blocked, with nothing left that could
\* unblock it; in no state has the second send completed.
C27_SecondSendBlocks ==
    chProg = "pitfall" =>
        /\ chPc.go < 3
        /\ chPc.go = 2 <=> chPc.main = 4
        /\ chLocals.printed = IF chPc.main = 4 THEN <<1>> ELSE <<>>
        /\ chPc.main = 4 => /\ StmtOf("go") = Op("send", "results")
                            /\ ~CanStep("go")
                            /\ ~CanStep("main")

\* C27 happens: main has printed 1 and ended, and the goroutine is at its
\* second send.
C27_Witness ==
    /\ chProg = "pitfall"
    /\ chPc.main = 4
    /\ chLocals.printed = <<1>>
    /\ chPc.go = 2

\* C28: processOrders: main is past <-done only after the worker has sent
\* on done, so the database is closed only when every order has been
\* saved; with done of capacity 1 the worker's send is never blocked, and
\* main is blocked at <-done until the worker has sent.
C28_DoneSynchronizes ==
    chProg = "orders" =>
        /\ chPc.main >= 3 => chPc.go = 3
        /\ ~chLocals.dbOpen => chLocals.saved = chIn.orders
        /\ chPc.go >= 2 => chLocals.saved = chIn.orders
        /\ (chIn.cap = 1 /\ chPc.go = 2) => CanStep("go")
        /\ (chPc.main = 2 /\ chPc.go < 2) => ~CanStep("main")
        /\ (chIn.cap = 1 /\ chPc.main = 2 /\ chPc.go < 3) => ~CanStep("main")

\* C28 happens: with done of capacity 1, the worker has saved MaxOrders
\* orders, sent and ended while main had not yet received; later the
\* database is closed.
C28_Witness ==
    /\ chProg = "orders"
    /\ chIn.cap = 1
    /\ Len(chIn.orders) = MaxOrders
    /\ ~chLocals.dbOpen
    /\ chLocals.saved = chIn.orders

\* C28's unbuffered case happens: the worker is at done <- true and main at
\* <-done, about to meet.
C28_WitnessUnbuffered ==
    /\ chProg = "orders"
    /\ chIn.cap = 0
    /\ chPc.go = 2
    /\ chPc.main = 2
    /\ chIn.orders # <<>>

=============================================================================
